---- MODULE Spec2Model ----
(***************************************************************************)
(* Model of the CSV ingestion and missing-value pipeline process_csv, as   *)
(* implemented twice: src/csv_log_processor.py and src/logcsvfile.py.      *)
(*                                                                         *)
(* The file at file_path is the input.  It is either missing, or a text    *)
(* of comma separated lines: a header line of NCols names followed by data *)
(* rows.  A data row is the sequence of its fields; blank lines are not    *)
(* represented because pd.read_csv skips them.  The two scripts are run    *)
(* one after the other on the same file, csv_log_processor.py first, each  *)
(* with its own DataFrame and its own record of emitted log events.        *)
(*                                                                         *)
(* Exceptions are raised by pd.read_csv only: isnull().sum().sum() and     *)
(* fillna("UNKNOWN") are total on every DataFrame read_csv returns.        *)
(***************************************************************************)
EXTENDS Integers, Sequences, FiniteSets, TLC

\* ---------------------------------------------------------------- bounds
NCols == 2          \* number of names in the header line
MaxRows == 2        \* number of data rows in the file

\* ------------------------------------------------------------ vocabulary
file_path == "data.csv"
Fields == {"", "HR"}                  \* field texts of the file
NaN == "NaN"                          \* the absent cell of a DataFrame
UNKNOWN == "UNKNOWN"                  \* the fill value
na_values == {"", "NA", "NaN", "null"}  \* texts read_csv reads as NaN

RowsOfFile == UNION {[1..n -> Fields] : n \in 1..(NCols + 1)}
FilesOfRows == UNION {[1..n -> RowsOfFile] : n \in 0..MaxRows}

\* the file system entry at file_path: missing, empty (ncols = 0) or a
\* header of ncols names followed by rows
FileStates ==
    {[exists |-> FALSE, ncols |-> 0, rows |-> <<>>],
     [exists |-> TRUE, ncols |-> 0, rows |-> <<>>]}
    \cup {[exists |-> TRUE, ncols |-> NCols, rows |-> r] : r \in FilesOfRows}

\* time.time(): the clock after a read that found it at c; time passes
\* between two reads, and a run reads the clock twice
time_time(c) == c + 1

\* ------------------------------------------------------- logging module
LevelNo == [INFO |-> 20, WARNING |-> 30, ERROR |-> 40]
basicConfig_level == LevelNo["INFO"]

LogRecord(level, msg, file, count, desc, elapsed) ==
    [level |-> level, msg |-> msg, file |-> file, count |-> count,
     desc |-> desc, elapsed |-> elapsed]

\* logging.<level>(...): the root logger hands the record to the file
\* handler when the level passes the configured threshold
logging_log(log, rec) ==
    IF LevelNo[rec.level] >= basicConfig_level THEN Append(log, rec) ELSE log

\* ------------------------------------------------------------- pandas
Max(a, b) == IF a >= b THEN a ELSE b

\* fields the tokenizer expects in the data rows after the first one
expected_fields(f) ==
    IF Len(f.rows) = 0 THEN f.ncols ELSE Max(f.ncols, Len(f.rows[1]))

\* leading fields of every row that become the implicit index
leading_cols(f) == expected_fields(f) - f.ncols

\* a short row is padded with empty fields up to the expected count
pad_row(row, n) == [j \in 1..n |-> IF j <= Len(row) THEN row[j] ELSE ""]

parse_cell(text) == IF text \in na_values THEN NaN ELSE text

\* variant: every row whose field count differs from the header's is an error
read_csv_error_strict(f) ==
    IF ~f.exists THEN "FileNotFoundError"
    ELSE IF f.ncols = 0 THEN "EmptyDataError"
    ELSE IF \E i \in 1..Len(f.rows) : Len(f.rows[i]) # f.ncols
         THEN "ParserError"
    ELSE ""

\* the exception pd.read_csv(file_path) raises, "" when it returns
read_csv_error(f) ==
    IF ~f.exists THEN "FileNotFoundError"
    ELSE IF f.ncols = 0 THEN "EmptyDataError"
    ELSE IF \E i \in 2..Len(f.rows) : Len(f.rows[i]) > expected_fields(f)
         THEN "ParserError"
    ELSE ""

\* the DataFrame pd.read_csv(file_path) returns: one record per data row,
\* one cell per header column
read_csv(f) ==
    [i \in 1..Len(f.rows) |->
        LET full == pad_row(f.rows[i], expected_fields(f))
        IN  [j \in 1..f.ncols |-> parse_cell(full[leading_cols(f) + j])]]

isnull(cell) == cell = NaN

RECURSIVE column_sum(_, _, _)
\* df.isnull().sum()[j]: the NaN cells of column j in records 1..i
column_sum(df, j, i) ==
    IF i = 0 THEN 0
    ELSE column_sum(df, j, i - 1) + (IF isnull(df[i][j]) THEN 1 ELSE 0)

RECURSIVE series_sum(_, _, _)
\* .sum() of the per column counts of columns 1..j
series_sum(df, ncols, j) ==
    IF j = 0 THEN 0
    ELSE series_sum(df, ncols, j - 1) + column_sum(df, j, Len(df))

\* variant: df.isnull().any().sum(), the number of columns with a NaN
isnull_any_sum(df, ncols) ==
    Cardinality({j \in 1..ncols : \E i \in 1..Len(df) : isnull(df[i][j])})

\* df.isnull().sum().sum()
isnull_sum_sum(df, ncols) == series_sum(df, ncols, ncols)

\* variant: every cell is overwritten with the fill value
fillna_all(df, value) ==
    [i \in 1..Len(df) |-> [j \in 1..Len(df[i]) |-> value]]

\* variant: fillna(value, limit=1), only the first NaN of a column is filled
fillna_limit(df, value) ==
    [i \in 1..Len(df) |->
        [j \in 1..Len(df[i]) |->
            IF isnull(df[i][j]) /\ \A k \in 1..(i - 1) : ~isnull(df[k][j])
            THEN value ELSE df[i][j]]]

\* df.fillna(value, inplace=True)
fillna(df, value) ==
    [i \in 1..Len(df) |->
        [j \in 1..Len(df[i]) |-> IF isnull(df[i][j]) THEN value ELSE df[i][j]]]

\* ---------------------------------------------------------------- state
VARIABLES fs, clock,
          clp_pc, clp_df, clp_total_missing, clp_start_time,
          clp_log, clp_ret,
          lcf_pc, lcf_df, lcf_missing_values, lcf_start_time,
          lcf_log, lcf_ret

clp_vars == <<clp_pc, clp_df, clp_total_missing, clp_start_time,
              clp_log, clp_ret>>
lcf_vars == <<lcf_pc, lcf_df, lcf_missing_values, lcf_start_time,
              lcf_log, lcf_ret>>
vars == <<fs, clock, clp_vars, lcf_vars>>

Init ==
    /\ fs \in FileStates
    /\ clock = 0
    /\ clp_pc = "Idle" /\ clp_df = <<>> /\ clp_total_missing = 0
    /\ clp_start_time = 0 /\ clp_log = <<>>
    /\ clp_ret = [tag |-> "pending"]
    /\ lcf_pc = "Idle" /\ lcf_df = <<>> /\ lcf_missing_values = 0
    /\ lcf_start_time = 0 /\ lcf_log = <<>>
    /\ lcf_ret = [tag |-> "pending"]

\* --------------------------------- csv_log_processor.py: process_csv
clp_Start ==
    /\ clp_pc = "Idle"
    /\ clp_log' = logging_log(clp_log,
                      LogRecord("INFO", "start", file_path, 0, "", 0))
    /\ clp_start_time' = clock
    /\ clock' = time_time(clock)
    /\ clp_pc' = "Loading"
    /\ UNCHANGED <<fs, clp_df, clp_total_missing, clp_ret, lcf_vars>>

\* variant: no except clause, the exception leaves process_csv
clp_Except_raise(e) ==
    /\ clp_pc' = "Failed"
    /\ clp_ret' = [tag |-> "raised"]
    /\ UNCHANGED clp_log

\* the except clause: the exception e raised in the try block is caught,
\* logged once and the function returns normally
clp_Except(e) ==
    /\ clp_log' = logging_log(clp_log,
                      LogRecord("ERROR", "failed", file_path, 0, e, 0))
    /\ clp_pc' = "Failed"
    /\ clp_ret' = [tag |-> "None"]

clp_Load ==
    /\ clp_pc = "Loading"
    /\ IF read_csv_error(fs) = ""
       THEN /\ clp_df' = read_csv(fs)
            /\ clp_pc' = "Counting"
            /\ UNCHANGED <<clp_log, clp_ret>>
       ELSE /\ clp_Except(read_csv_error(fs))
            /\ UNCHANGED clp_df
    /\ UNCHANGED <<fs, clock, clp_total_missing, clp_start_time,
                   lcf_vars>>

\* variant: the WARNING is guarded by total_missing >= 0
clp_Count_ge ==
    /\ clp_pc = "Counting"
    /\ clp_total_missing' = isnull_sum_sum(clp_df, fs.ncols)
    /\ clp_log' = IF clp_total_missing' >= 0
                  THEN logging_log(clp_log,
                           LogRecord("WARNING", "missing", file_path,
                                     clp_total_missing', "", 0))
                  ELSE clp_log
    /\ clp_pc' = "Filling"
    /\ UNCHANGED <<fs, clock, clp_df, clp_start_time, clp_ret,
                   lcf_vars>>

clp_Count ==
    /\ clp_pc = "Counting"
    /\ clp_total_missing' = isnull_sum_sum(clp_df, fs.ncols)
    /\ clp_log' = IF clp_total_missing' > 0
                  THEN logging_log(clp_log,
                           LogRecord("WARNING", "missing", file_path,
                                     clp_total_missing', "", 0))
                  ELSE clp_log
    /\ clp_pc' = "Filling"
    /\ UNCHANGED <<fs, clock, clp_df, clp_start_time, clp_ret,
                   lcf_vars>>

\* variant: fillna without inplace=True, df keeps its NaN cells
clp_Fill_copy ==
    /\ clp_pc = "Filling"
    /\ clp_pc' = "Timing"
    /\ UNCHANGED <<fs, clock, clp_df, clp_total_missing, clp_start_time,
                   clp_log, clp_ret, lcf_vars>>

clp_Fill ==
    /\ clp_pc = "Filling"
    /\ clp_df' = fillna(clp_df, UNKNOWN)
    /\ clp_pc' = "Timing"
    /\ UNCHANGED <<fs, clock, clp_total_missing, clp_start_time,
                   clp_log, clp_ret, lcf_vars>>

clp_Complete ==
    /\ clp_pc = "Timing"
    /\ clp_log' = logging_log(clp_log,
                     LogRecord("INFO", "completed", "", 0, "",
                               clock - clp_start_time))
    /\ clock' = time_time(clock)
    /\ clp_pc' = "Done"
    /\ clp_ret' = [tag |-> "None"]
    /\ UNCHANGED <<fs, clp_df, clp_total_missing, clp_start_time,
                   lcf_vars>>


\* ---------------------------------------- logcsvfile.py: process_csv
lcf_Start ==
    /\ lcf_pc = "Idle"
    /\ clp_pc \in {"Done", "Failed"}    \* the scripts run one after the other
    /\ lcf_log' = logging_log(lcf_log,
                      LogRecord("INFO", "start", file_path, 0, "", 0))
    /\ lcf_start_time' = clock
    /\ clock' = time_time(clock)
    /\ lcf_pc' = "Loading"
    /\ UNCHANGED <<fs, lcf_df, lcf_missing_values, lcf_ret, clp_vars>>

\* variant: except ...: pass, the exception is swallowed without a log line
lcf_Except_pass(e) ==
    /\ lcf_pc' = "Failed"
    /\ lcf_ret' = [tag |-> "None"]
    /\ UNCHANGED lcf_log

\* the except clause: the exception e raised in the try block is caught,
\* logged once and the function returns normally
lcf_Except(e) ==
    /\ lcf_log' = logging_log(lcf_log,
                      LogRecord("ERROR", "failed", file_path, 0, e, 0))
    /\ lcf_pc' = "Failed"
    /\ lcf_ret' = [tag |-> "None"]

lcf_Load ==
    /\ lcf_pc = "Loading"
    /\ IF read_csv_error(fs) = ""
       THEN /\ lcf_df' = read_csv(fs)
            /\ lcf_pc' = "Counting"
            /\ UNCHANGED <<lcf_log, lcf_ret>>
       ELSE /\ lcf_Except(read_csv_error(fs))
            /\ UNCHANGED lcf_df
    /\ UNCHANGED <<fs, clock, lcf_missing_values, lcf_start_time,
                   clp_vars>>

\* variant: the WARNING reports the count of the rows instead of the cells
lcf_Count_rows ==
    /\ lcf_pc = "Counting"
    /\ lcf_missing_values' = isnull_sum_sum(lcf_df, fs.ncols)
    /\ lcf_log' = IF lcf_missing_values' > 0
                  THEN logging_log(lcf_log,
                           LogRecord("WARNING", "missing", file_path,
                                     Len(lcf_df), "", 0))
                  ELSE lcf_log
    /\ lcf_pc' = "Filling"
    /\ UNCHANGED <<fs, clock, lcf_df, lcf_start_time, lcf_ret,
                   clp_vars>>

lcf_Count ==
    /\ lcf_pc = "Counting"
    /\ lcf_missing_values' = isnull_sum_sum(lcf_df, fs.ncols)
    /\ lcf_log' = IF lcf_missing_values' > 0
                  THEN logging_log(lcf_log,
                           LogRecord("WARNING", "missing", file_path,
                                     lcf_missing_values', "", 0))
                  ELSE lcf_log
    /\ lcf_pc' = "Filling"
    /\ UNCHANGED <<fs, clock, lcf_df, lcf_start_time, lcf_ret,
                   clp_vars>>

lcf_Fill ==
    /\ lcf_pc = "Filling"
    /\ lcf_df' = fillna(lcf_df, UNKNOWN)
    /\ lcf_pc' = "Timing"
    /\ UNCHANGED <<fs, clock, lcf_missing_values, lcf_start_time,
                   lcf_log, lcf_ret, clp_vars>>

\* variant: the completion is logged with logging.warning
lcf_Complete_warning ==
    /\ lcf_pc = "Timing"
    /\ lcf_log' = logging_log(lcf_log,
                     LogRecord("WARNING", "completed", "", 0, "",
                               clock - lcf_start_time))
    /\ clock' = time_time(clock)
    /\ lcf_pc' = "Done"
    /\ lcf_ret' = [tag |-> "None"]
    /\ UNCHANGED <<fs, lcf_df, lcf_missing_values, lcf_start_time,
                   clp_vars>>

lcf_Complete ==
    /\ lcf_pc = "Timing"
    /\ lcf_log' = logging_log(lcf_log,
                     LogRecord("INFO", "completed", "", 0, "",
                               clock - lcf_start_time))
    /\ clock' = time_time(clock)
    /\ lcf_pc' = "Done"
    /\ lcf_ret' = [tag |-> "None"]
    /\ UNCHANGED <<fs, lcf_df, lcf_missing_values, lcf_start_time,
                   clp_vars>>


Next ==
    \/ clp_Start \/ clp_Load \/ clp_Count \/ clp_Fill \/ clp_Complete
    \/ lcf_Start \/ lcf_Load \/ lcf_Count \/ lcf_Fill \/ lcf_Complete

Spec == Init /\ [][Next]_vars

\* process_csv is synchronous straight-line code over a finite file: a run
\* that has a step to take takes it
FairSpec == Spec /\ WF_vars(Next)

TypeOK ==
    /\ fs \in FileStates
    /\ clock \in 0..4
    /\ clp_pc \in {"Idle", "Loading", "Counting", "Filling", "Timing",
                   "Done", "Failed"}
    /\ lcf_pc \in {"Idle", "Loading", "Counting", "Filling", "Timing",
                   "Done", "Failed"}
\* ------------------------------------------------------ views of a run
clp == [pc |-> clp_pc, df |-> clp_df, missing |-> clp_total_missing,
        log |-> clp_log, ret |-> clp_ret]
lcf == [pc |-> lcf_pc, df |-> lcf_df, missing |-> lcf_missing_values,
        log |-> lcf_log, ret |-> lcf_ret]

Loaded == read_csv(fs)
LoadFails == read_csv_error(fs) # ""
AbsentCells(df) ==
    {c \in (1..Len(df)) \X (1..NCols) : df[c[1]][c[2]] = NaN}
Events(log, level) == {i \in 1..Len(log) : log[i].level = level}
Levels(log) == [i \in 1..Len(log) |-> log[i].level]
Terminal(pc) == pc \in {"Done", "Failed"}
LoadSucceeded(pc) == pc \in {"Counting", "Filling", "Timing", "Done"}
Counted(pc) == pc \in {"Filling", "Timing", "Done"}
Filled(pc) == pc \in {"Timing", "Done"}

\* ------------------------------------------------------------------ C1
OneErrorAbout(r) ==
    /\ Cardinality(Events(r.log, "ERROR")) = 1
    /\ \A i \in Events(r.log, "ERROR") :
          /\ r.log[i].file = file_path
          /\ r.log[i].desc = read_csv_error(fs)
          /\ r.log[i].desc # ""

C1_Stated(r) ==
    (LoadFails /\ Terminal(r.pc)) =>
        /\ OneErrorAbout(r)
        /\ r.pc = "Failed"
        /\ r.ret.tag = "Failure"

C1_Amended(r) ==
    /\ (LoadFails /\ Terminal(r.pc)) =>
          /\ OneErrorAbout(r)
          /\ r.pc = "Failed"
          /\ r.ret = [tag |-> "None"]
    /\ (LoadFails /\ ~Terminal(r.pc)) =>
          /\ Events(r.log, "ERROR") = {}
          /\ r.pc \in {"Idle", "Loading"}

\* C1 as stated: a run whose load fails emits exactly one ERROR event with
\* the source identifier and the failure description, returns a Failure
\* outcome and raises nothing.
C1_FailureOutcome == C1_Stated(clp) /\ C1_Stated(lcf)

\* C1 amended: a run whose load fails emits exactly one ERROR event with the
\* source identifier and the failure description, raises nothing and returns
\* normally with the value None (no Failure value is returned).
C1_FailureContained == C1_Amended(clp) /\ C1_Amended(lcf)

C1_Witness ==
    /\ ~fs.exists
    /\ clp_pc = "Failed" /\ Len(clp_log) = 2
    /\ lcf_pc = "Failed" /\ Len(lcf_log) = 2

\* ------------------------------------------------------------------ C2
C2_Stated(r) ==
    /\ r.pc = "Done" => r.ret.tag = "Success"
    /\ r.pc = "Failed" => r.ret.tag = "Failure"

LastEvent(log) == log[Len(log)]

C2_Amended(r) ==
    /\ Terminal(r.pc) <=> r.ret = [tag |-> "None"]
    /\ r.pc = "Done" =>
          /\ LastEvent(r.log).level = "INFO"
          /\ LastEvent(r.log).msg = "completed"
    /\ r.pc = "Failed" =>
          /\ LastEvent(r.log).level = "ERROR"
          /\ LastEvent(r.log).desc = read_csv_error(fs)

\* C2 as stated: a completed run returns Success (dataset, elapsed, missing
\* count), a failed run returns Failure (description), and the returned
\* value alone tells the two apart.
C2_DiscriminatedOutcome == C2_Stated(clp) /\ C2_Stated(lcf)

\* C2 amended: process_csv returns None both when it completes and when it
\* fails, so the returned value does not tell the two apart; the outcome is
\* observable only in the log, whose last event is the completion INFO of a
\* completed run and the ERROR with the description of a failed run.
C2_OutcomeOnlyInLog == C2_Amended(clp) /\ C2_Amended(lcf)

C2_Witness ==
    /\ clp_pc = "Done" /\ clp_ret = [tag |-> "None"]
    /\ lcf_pc = "Done" /\ lcf_ret = [tag |-> "None"]
    /\ AbsentCells(Loaded) # {}

\* ------------------------------------------------------------------ C3
C3_Warnings(r) ==
    /\ Counted(r.pc) =>
          /\ Cardinality(Events(r.log, "WARNING")) =
                 (IF AbsentCells(Loaded) # {} THEN 1 ELSE 0)
          /\ \A i \in Events(r.log, "WARNING") :
                /\ r.log[i].file = file_path
                /\ r.log[i].count = Cardinality(AbsentCells(Loaded))
    /\ ~Counted(r.pc) => Events(r.log, "WARNING") = {}

\* C3: a run whose load succeeds emits exactly one WARNING if the dataset as
\* loaded has an absent cell and none otherwise; the WARNING carries the
\* source identifier and the number of absent cells before any fill.
C3_WarningIffMissing == C3_Warnings(clp) /\ C3_Warnings(lcf)

C3_Witness ==
    /\ clp_pc = "Done" /\ lcf_pc = "Done"
    /\ Cardinality(AbsentCells(Loaded)) = 3
    /\ Cardinality(Events(clp_log, "WARNING")) = 1
    /\ Cardinality(Events(lcf_log, "WARNING")) = 1

\* ------------------------------------------------------------------ C4
C4_Order(r) ==
    /\ r.pc = "Done" =>
          /\ Levels(r.log) \in {<<"INFO", "INFO">>,
                                <<"INFO", "WARNING", "INFO">>}
          /\ r.log[1].msg = "start" /\ r.log[1].file = file_path
          /\ LastEvent(r.log).msg = "completed"
    \* the WARNING is in the log before fill acts, after load and count
    /\ r.pc = "Counting" => Levels(r.log) = <<"INFO">>
    /\ r.pc = "Filling" =>
          /\ r.df = Loaded
          /\ Levels(r.log) \in {<<"INFO">>, <<"INFO", "WARNING">>}
    \* the completion event is in the log only once fill has finished
    /\ r.pc = "Timing" =>
          /\ AbsentCells(r.df) = {}
          /\ \A i \in 1..Len(r.log) : r.log[i].msg # "completed"

\* C4: a run that completes emits INFO start (with the source identifier),
\* then at most one WARNING after load and count and before fill, then the
\* INFO with the elapsed time after fill has finished; nothing else and no
\* ERROR.
C4_EventOrder == C4_Order(clp) /\ C4_Order(lcf)

C4_Witness ==
    /\ clp_pc = "Done" /\ Levels(clp_log) = <<"INFO", "WARNING", "INFO">>
    /\ lcf_pc = "Done" /\ Levels(lcf_log) = <<"INFO", "WARNING", "INFO">>

\* ------------------------------------------------------------------ C5
C5_Fill(r) ==
    Filled(r.pc) =>
        /\ Len(r.df) = Len(Loaded)
        /\ \A i \in 1..Len(Loaded) :
              /\ DOMAIN r.df[i] = DOMAIN Loaded[i]
              /\ \A j \in DOMAIN Loaded[i] :
                    IF Loaded[i][j] = NaN
                    THEN r.df[i][j] = UNKNOWN
                    ELSE r.df[i][j] = Loaded[i][j]
        /\ AbsentCells(r.df) = {}

\* C5: the filled dataset has the records and the columns of the loaded one
\* in the same order; an absent cell holds the sentinel, a present cell its
\* original value, and no absent cell remains.
C5_FillPreserves == C5_Fill(clp) /\ C5_Fill(lcf)

C5_Witness ==
    /\ clp_pc = "Done" /\ lcf_pc = "Timing"
    /\ Len(Loaded) = 2
    /\ \E c \in AbsentCells(Loaded) : clp_df[c[1]][c[2]] = UNKNOWN
    /\ \E i \in 1..Len(Loaded) : \E j \in 1..NCols :
          Loaded[i][j] = "HR" /\ clp_df[i][j] = "HR" /\ lcf_df[i][j] = "HR"

\* ------------------------------------------------------------------ C6
C6_Count(r) ==
    /\ Counted(r.pc) =>
          /\ r.missing = Cardinality(AbsentCells(Loaded))
          /\ Len(Loaded) = 0 => r.missing = 0
    /\ r.pc = "Filling" => r.df = Loaded

\* C6: the count of missing values equals the number of absent (record,
\* column) cells of the dataset, is 0 for a dataset with zero records, and
\* counting leaves the dataset unchanged.
C6_CountExact == C6_Count(clp) /\ C6_Count(lcf)

C6_Witness ==
    /\ clp_pc = "Done" /\ lcf_pc = "Filling"
    /\ clp_total_missing = 3 /\ lcf_missing_values = 3
    /\ \A j \in 1..NCols : \E c \in AbsentCells(lcf_df) : c[2] = j

\* ------------------------------------------------------------------ C7
C7_Idem(r) ==
    /\ r.pc = "Filling" =>
          fillna(fillna(r.df, UNKNOWN), UNKNOWN) = fillna(r.df, UNKNOWN)
    /\ Filled(r.pc) =>
          /\ fillna(r.df, UNKNOWN) = r.df
          /\ isnull_sum_sum(r.df, fs.ncols) = 0

\* C7: filling a filled dataset changes nothing, and the missing count of a
\* filled dataset is 0, so a second pass over it emits no WARNING.
C7_FillIdempotent == C7_Idem(clp) /\ C7_Idem(lcf)

C7_Witness ==
    /\ clp_pc = "Done" /\ lcf_pc = "Timing"
    /\ Cardinality(AbsentCells(Loaded)) >= 2
    /\ clp_df # Loaded /\ lcf_df # Loaded

\* ------------------------------------------------------------------ C8
HasHeader == fs.exists /\ fs.ncols > 0
ShortRows == {i \in 1..Len(fs.rows) : Len(fs.rows[i]) < fs.ncols}
LongRows == {i \in 1..Len(fs.rows) : Len(fs.rows[i]) > fs.ncols}
\* rows after the first with more fields than the header and the first row
OverlongRows ==
    {i \in 2..Len(fs.rows) :
        Len(fs.rows[i]) > fs.ncols /\ Len(fs.rows[i]) > Len(fs.rows[1])}
\* the cells of the short rows for which the file has no field
MissingFields(df) ==
    {c \in (1..Len(df)) \X (1..NCols) : c[2] > Len(fs.rows[c[1]])}

FailedOnce(r) ==
    /\ r.pc = "Failed"
    /\ Cardinality(Events(r.log, "ERROR")) = 1
    /\ Events(r.log, "WARNING") = {}
    /\ r.df = <<>> /\ r.missing = 0

C8_Stated(r) ==
    (HasHeader /\ ShortRows \cup LongRows # {} /\ r.pc \notin {"Idle", "Loading"})
        => FailedOnce(r)

C8_Amended(r) ==
    /\ (HasHeader /\ OverlongRows # {} /\ r.pc \notin {"Idle", "Loading"})
          => /\ FailedOnce(r)
             /\ \A i \in Events(r.log, "ERROR") : r.log[i].desc = "ParserError"
    /\ (HasHeader /\ LongRows = {} /\ r.pc \notin {"Idle", "Loading"}) =>
          /\ LoadSucceeded(r.pc)
          /\ r.pc \in {"Counting", "Filling"} =>
                \A c \in MissingFields(r.df) : r.df[c[1]][c[2]] = NaN
          /\ Counted(r.pc) => r.missing >= Cardinality(MissingFields(r.df))
          /\ Filled(r.pc) =>
                \A c \in MissingFields(r.df) : r.df[c[1]][c[2]] = UNKNOWN

\* C8 as stated: a data row whose number of fields differs from the header's
\* (in particular a row with fewer fields) makes load fail, so the run ends
\* Failed with one ERROR event and the row is neither counted nor filled.
C8_RaggedRowFails == C8_Stated(clp) /\ C8_Stated(lcf)

\* C8 amended: load fails (ParserError), and the run ends Failed with one
\* ERROR event and nothing counted or filled, when a data row after the first
\* has more fields than the header and than the first data row.  A row with
\* fewer fields than the header does not make load fail: when no row has more
\* fields than the header the load succeeds, the cells the short row has no
\* field for are loaded as absent, and they are counted and filled.
C8_OnlyOverlongRowFails == C8_Amended(clp) /\ C8_Amended(lcf)

C8_Witness ==
    /\ ShortRows # {} /\ LongRows = {}
    /\ clp_pc = "Done" /\ lcf_pc = "Done"
    /\ \E c \in MissingFields(clp_df) :
          clp_df[c[1]][c[2]] = UNKNOWN /\ lcf_df[c[1]][c[2]] = UNKNOWN
    /\ clp_total_missing > 0

\* ------------------------------------------------------------------ C9
Phase(pc) == IF pc = "Timing" THEN "Filling" ELSE pc

PhaseStep(p, q) ==
    \/ p = q
    \/ <<p, q>> \in {<<"Idle", "Loading">>, <<"Loading", "Counting">>,
                     <<"Counting", "Filling">>, <<"Filling", "Done">>}
    \/ ~Terminal(p) /\ q = "Failed"

HasCompleted(log) == \E i \in 1..Len(log) : log[i].msg = "completed"

C9_Terminal(r) ==
    /\ r.pc = "Done" =>
          /\ HasCompleted(r.log)
          /\ AbsentCells(r.df) = {}
          /\ Events(r.log, "ERROR") = {}
    /\ r.pc = "Failed" =>
          /\ Cardinality(Events(r.log, "ERROR")) = 1
          /\ ~HasCompleted(r.log)
    /\ ~(HasCompleted(r.log) /\ Events(r.log, "ERROR") # {})
    /\ ~Terminal(r.pc) =>
          ~HasCompleted(r.log) /\ Events(r.log, "ERROR") = {}

C9_Steps ==
    /\ PhaseStep(Phase(clp_pc), Phase(clp_pc'))
    /\ PhaseStep(Phase(lcf_pc), Phase(lcf_pc'))
    /\ Terminal(clp_pc) => UNCHANGED clp_vars
    /\ Terminal(lcf_pc) => UNCHANGED lcf_vars

\* C9: every run follows Idle -> Loading -> Counting -> Filling -> Done, may
\* go to Failed from a non-terminal state, and ends in exactly one terminal
\* state: Done with the completion INFO emitted and no absent cell, or Failed
\* with exactly one ERROR; never both events, and nothing after a terminal
\* state.
C9_StateMachine ==
    /\ [](C9_Terminal(clp) /\ C9_Terminal(lcf))
    /\ [][C9_Steps]_vars
    /\ <>[](Terminal(clp_pc) /\ Terminal(lcf_pc))

C9_Witness ==
    /\ clp_pc = "Failed" /\ lcf_pc = "Failed"
    /\ read_csv_error(fs) = "ParserError"

\* ----------------------------------------------------------------- C10
WarningCounts(log) == {log[i].count : i \in Events(log, "WARNING")}

C10_Same ==
    \* while the second run is under way its events repeat those of the first
    /\ Terminal(clp_pc) =>
          /\ Len(lcf_log) <= Len(clp_log)
          /\ Levels(lcf_log) = SubSeq(Levels(clp_log), 1, Len(lcf_log))
          /\ WarningCounts(lcf_log) \subseteq WarningCounts(clp_log)
    /\ (Terminal(clp_pc) /\ Terminal(lcf_pc)) =>
          /\ clp_pc = lcf_pc
          /\ Levels(clp_log) = Levels(lcf_log)
          /\ WarningCounts(clp_log) = WarningCounts(lcf_log)

\* C10: on the same input the two implementations emit the same sequence of
\* log levels and the same missing count in the WARNING, and end in the same
\* terminal state.
C10_Equivalent == C10_Same

C10_Witness ==
    /\ clp_pc = "Done" /\ lcf_pc = "Done"
    /\ WarningCounts(clp_log) = {2} /\ WarningCounts(lcf_log) = {2}
====
